---- MODULE Spec2Model ----
(***************************************************************************)
(* ELFdwt: patches the LPC boot ROM checksum into an ELF32 little-endian   *)
(* image.  main() of src/main.cpp is modelled as a sequence of steps, one  *)
(* per statement group; the file on disk and the process environment      *)
(* (arguments, file permissions) are part of the state.                    *)
(*                                                                         *)
(* Numbers.  TLC integers are 32-bit signed, so a uint32_t is kept as two  *)
(* 16-bit halves [hi, lo] with value hi * 2^16 + lo.  A size_t (64 bit on  *)
(* the LP64 build of the tool) uses the same record with an unbounded hi.  *)
(* Bytes are integers 0..255; the buffer raw is a sequence whose element   *)
(* k+1 is the byte at offset k.                                            *)
(***************************************************************************)
EXTENDS Integers, Sequences, FiniteSets, TLC

VARIABLES
    hasArg,       \* argc > 1
    rres,         \* how reading the file at argv[1] ends (see ReadOutcomes)
    disk,         \* content of the file at argv[1]
    pc,           \* position of main()
    raw,          \* std::vector<uint8_t> raw
    crc_data,     \* std::array<uint32_t, 7> crc_data
    crc,          \* uint32_t crc
    out,          \* lines printed on std::cout
    err,          \* the "Error:" line printed, or NoError
    exitCode,     \* exit status of the process (valid when pc = "exit")
    log,          \* opens and closes of the file, in order
    wres,         \* how the write of the output file ended
    accessEnd,    \* one past the highest offset of raw read or written
    run,          \* number of the current invocation of the tool
    disk0,        \* content of the file when the current invocation started
    prev0,        \* content of the file when the previous invocation started
    prevWritten,  \* the previous invocation wrote its buffer back completely
    call,         \* arguments of a function called on its own
    ret           \* its result

vars == <<hasArg, rres, disk, pc, raw, crc_data, crc, out, err, exitCode,
          log, wres, accessEnd, run, disk0, prev0, prevWritten, call, ret>>

(***************************************************************************)
(* Bounds of the model.                                                    *)
(***************************************************************************)
MaxRuns == 2
MaxLen == 164

(***************************************************************************)
(* Layout of the ELF structures (offsets of the fields the tool reads).    *)
(***************************************************************************)
e_ident_size == 16
progbits == 1
SizeofHeader == 52
SizeofSectorHeader == 40
SizeofWord == 4
OffEShoff == 32
OffEShentsize == 46
OffEShnum == 48
OffShType == 4
OffShOffset == 16
CrcWords == 7
elf_signature == <<127, 69, 76, 70>>

(***************************************************************************)
(* The lines the tool prints.                                              *)
(***************************************************************************)
Banner == "ELFdwt for little endian"
NoError == "none"
MissingArgument == "Error: argument expected"
EmptyOrUnreadableFile == "Error: could not open file"
InvalidSignature == "Error: invalid elf file (no header)"
TooSmallForHeader == "Error: invalid elf file (file to small, header)"
TooFewSections == "Error: invalid elf file (not enough sections)"
TooSmallForSectionTable == "Error: invalid elf file (file to small, sections)"
WrongSectionType == "Error: first section does not have the progbits flag set"
TooSmallForVectorTable == "Error: invalid elf file (file to small, vectors)"
SignatureLine == "Signature over range"
Completed == "Processing completed, success"

(***************************************************************************)
(* uint32_t and size_t arithmetic.                                         *)
(***************************************************************************)
U32(h, l) == [hi |-> h, lo |-> l]
Zero32 == U32(0, 0)

\* uint32_t a + b (wraps modulo 2^32)
AddU32(a, b) ==
    LET l == a.lo + b.lo
    IN  U32((a.hi + b.hi + (l \div 65536)) % 65536, l % 65536)

\* uint32_t a - b (wraps modulo 2^32)
SubU32(a, b) ==
    LET l == a.lo - b.lo
    IN  U32((a.hi - b.hi + (l \div 65536)) % 65536, l % 65536)

\* conversion of a small non-negative int to size_t
SizeOf(n) == U32(n \div 65536, n % 65536)

\* size_t a + b; size_t has 64 bits and every sum formed by the tool is
\* below 2^33, so the reduction modulo 2^64 never applies
AddSize(a, b) ==
    LET l == a.lo + b.lo
    IN  U32(a.hi + b.hi + (l \div 65536), l % 65536)

\* size_t a < b
LtSize(a, b) == a.hi < b.hi \/ (a.hi = b.hi /\ a.lo < b.lo)

\* offset denoted by a value that is known to lie inside the buffer
ToIndex(w) == w.hi * 65536 + w.lo

Max(a, b) == IF a < b THEN b ELSE a


(***************************************************************************)
(* Access to the buffer.                                                   *)
(***************************************************************************)
\* the byte at offset i of r
ByteAt(r, i) == r[i + 1]

\* uint16_t field of a structure laid over r at offset i (little-endian host)
LoadLE16(r, i) == ByteAt(r, i + 1) * 256 + ByteAt(r, i)

\* uint32_t at offset i of r: ptr[0] | ptr[1] << 8 | ptr[2] << 16 | ptr[3] << 24
LoadLE32(r, i) ==
    U32(ByteAt(r, i + 3) * 256 + ByteAt(r, i + 2),
        ByteAt(r, i + 1) * 256 + ByteAt(r, i))

\* the four bytes of w, most significant first
BytesBE32(w) == <<w.hi \div 256, w.hi % 256, w.lo \div 256, w.lo % 256>>

\* location[0] = crc & 0xff ... location[3] = (crc >> 24) & 0xff
BytesLE32(w) == <<w.lo % 256, w.lo \div 256, w.hi % 256, w.hi \div 256>>

\* r with the bytes b stored from offset i on
StoreBytes(r, i, b) ==
    [k \in 1..Len(r) |-> IF k - 1 >= i /\ k - 1 < i + Len(b) THEN b[k - i] ELSE r[k]]

\* fields of elf::header, laid over the start of the buffer
e_shoff(r) == LoadLE32(r, OffEShoff)
e_shentsize(r) == LoadLE16(r, OffEShentsize)
e_shnum(r) == LoadLE16(r, OffEShnum)

\* offset of sections[1], sections being raw.data() + header.e_shoff
VectorsAt(r) == ToIndex(e_shoff(r)) + 1 * SizeofSectorHeader

\* fields of vectors = sections[1]
sh_type(r) == LoadLE32(r, VectorsAt(r) + OffShType)
sh_offset(r) == LoadLE32(r, VectorsAt(r) + OffShOffset)

(***************************************************************************)
(* The functions and the conditions of main().                             *)
(***************************************************************************)
\* how the read of the input file can end: the whole file is read; the
\* open fails and the stream yields nothing; the open succeeds and the read
\* fails (a directory), which std::istreambuf_iterator reports by an exception
ReadOutcomes == {"ok", "open_failed", "read_failed"}

\* get_raw_file does not return: the exception of the failed read is caught
\* nowhere and ends the process
get_raw_file_throws(r) == r = "read_failed"

\* get_raw_file: the whole file, or nothing when it cannot be opened
get_raw_file(file, r) == IF r = "ok" THEN file ELSE <<>>

\* the opens and closes get_raw_file makes
get_raw_file_events(r) ==
    CASE r = "ok" -> <<"ropen", "rclose">>
      [] r = "open_failed" -> <<"ropen_failed">>
      [] r = "read_failed" -> <<"ropen">>

\* exit status of a process ended by signal sig
KilledBy(sig) == 128 + sig

\* the byte std::equal compares at position i (0..3) of the buffer; past the
\* end of the buffer it is whatever lies behind it in memory (g)
SigByte(r, g, i) == IF i < Len(r) THEN ByteAt(r, i) ELSE g[i + 1]

\* std::equal(elf_signature.begin(), elf_signature.end(), raw.begin())
SignatureEqual(r, g) ==
    \A i \in 0..(Len(elf_signature) - 1) : SigByte(r, g, i) = elf_signature[i + 1]

\* number of bytes of the buffer std::equal looks at: the range is compared
\* as a whole (one memcmp), whatever the bytes hold
SignatureRead(r, g) == Len(elf_signature)

\* the same comparison with the sum formed in 32 bits
SectionsTooSmall32(size, shoff, shnum) ==
    LtSize(size, AddU32(shoff, SizeOf(shnum * SizeofSectorHeader)))

\* raw.size() < header.e_shoff + header.e_shnum * sizeof(elf::sector_header)
SectionsTooSmall(size, shoff, shnum) ==
    LtSize(size, AddSize(shoff, SizeOf(shnum * SizeofSectorHeader)))

\* static_cast<elf::type>(vectors.sh_type) != elf::type::progbits, mistaken
\* for a test against elf::type::undefined
NotProgbitsUndefined(t) == t = U32(0, 0)

\* static_cast<elf::type>(vectors.sh_type) != elf::type::progbits
NotProgbits(t) == t # U32(0, progbits)

\* raw.size() < vectors.sh_offset + 8 * sizeof(uint32_t)
VectorsTooSmall(size, off) ==
    LtSize(size, AddSize(off, SizeOf((CrcWords + 1) * SizeofWord)))

\* the same loop started one word late
ReadWordsFrom1(r, off) == [i \in 1..CrcWords |-> LoadLE32(r, off + i * SizeofWord)]

\* the words at word offsets 0..6 from offset off
ReadWords(r, off) == [i \in 1..CrcWords |-> LoadLE32(r, off + (i - 1) * SizeofWord)]

\* the loop of calculate_crc over the first n words
RECURSIVE SumWords(_, _)
SumWords(data, n) == IF n = 0 THEN Zero32 ELSE AddU32(SumWords(data, n - 1), data[n])

\* calculate_crc without the negation
calculate_crc_sum(data) == SumWords(data, Len(data))

\* calculate_crc
calculate_crc(data) == SubU32(Zero32, SumWords(data, Len(data)))

\* offset of the patched word, one word early
PatchAtWord6(off) == off + 6 * SizeofWord

\* location = raw.data() + vectors.sh_offset + 7 * sizeof(uint32_t)
PatchAt(off) == off + CrcWords * SizeofWord

\* the bytes stored at location[0..3]
CrcBytes(w) == BytesLE32(w)

\* exit status of a process whose main returns n
ExitStatus(n) == n % 256


(***************************************************************************)
(* The files the tool is run on.  An image is a zero-filled file of length *)
(* len with the vector table, the entry of section 1, the header fields    *)
(* and the signature stored over it, in this order: a later store wins     *)
(* where two overlap, and nothing is stored past the end of the file.      *)
(***************************************************************************)
Bytes16(n) == <<n % 256, n \div 256>>

RECURSIVE WordBytes(_, _)
WordBytes(ws, n) == IF n = 0 THEN <<>> ELSE WordBytes(ws, n - 1) \o BytesLE32(ws[n])

\* stores at an offset below 2^16 only: no file of the model is longer
StoreAt(r, w, k, b) == IF w.hi = 0 THEN StoreBytes(r, w.lo + k, b) ELSE r

MkImage(len, sig, shoff, shentsize, shnum, type, off, words) ==
    LET blank == [k \in 1..len |-> 0]
        table == StoreAt(blank, off, 0, WordBytes(words, CrcWords + 1))
        sec1t == StoreAt(table, shoff, SizeofSectorHeader + OffShType, BytesLE32(U32(0, type)))
        sec1 == StoreAt(sec1t, shoff, SizeofSectorHeader + OffShOffset, BytesLE32(off))
        alt1t == StoreAt(sec1, shoff, shentsize + OffShType, BytesLE32(U32(0, progbits)))
        alt1 == IF shentsize = SizeofSectorHeader
                THEN sec1
                ELSE StoreAt(alt1t, shoff, shentsize + OffShOffset, BytesLE32(off))
        hdr1 == StoreBytes(alt1, OffEShoff, BytesLE32(shoff))
        hdr2 == StoreBytes(hdr1, OffEShentsize, Bytes16(shentsize))
        hdr3 == StoreBytes(hdr2, OffEShnum, Bytes16(shnum))
    IN  StoreBytes(hdr3, 0, sig)

GoodSig == elf_signature
Sigs == {GoodSig, <<127, 69, 76, 0>>, <<0, 69, 76, 70>>}
ShortLens == {1, 2, 3, 4, 51}
LayoutLens == {52, 131, 132, 163, MaxLen}
Shoffs == {U32(0, 0), U32(0, 52), U32(65535, 65536 - 80)}
Shentsizes == {SizeofSectorHeader, 48}
Shnums == {1, 2, 3}
Types == {0, 1, 2}
Offs == {U32(0, 4), U32(0, 20), U32(0, 68), U32(0, 80), U32(0, 132), U32(0, 133),
         U32(65535, 65536 - 32)}
WordSets ==
    { <<U32(0, 1), U32(0, 2), U32(0, 3), U32(0, 4), U32(0, 5), U32(0, 6), U32(0, 7),
        U32(0, 0)>>,
      <<U32(4096, 1024), U32(0, 193), U32(0, 205), U32(0, 0), U32(0, 0), U32(0, 0),
        U32(65535, 65535), U32(57005, 48879)>> }

ShortImages ==
    { MkImage(len, sig, U32(0, 52), SizeofSectorHeader, 2, 1, U32(0, 132),
              CHOOSE w \in WordSets : w[1] = U32(0, 1)) :
        len \in ShortLens, sig \in Sigs }

LayoutImages ==
    { MkImage(p[1], GoodSig, p[2], p[3], p[4], p[5], p[6], p[7]) :
        p \in LayoutLens \X Shoffs \X Shentsizes \X Shnums \X Types \X Offs \X WordSets }

BadSigImages ==
    { MkImage(MaxLen, sig, U32(0, 52), SizeofSectorHeader, 2, 1, U32(0, 132),
              CHOOSE w \in WordSets : w[1] = U32(0, 1)) : sig \in Sigs \ {GoodSig} }

Images == ShortImages \cup LayoutImages \cup BadSigImages \cup {<<>>}

\* what may lie behind a buffer shorter than the signature
Garbage == {elf_signature, <<0, 0, 0, 0>>}

\* how the write of the output file can end: all of the buffer is written;
\* the open fails and nothing is written; the open truncates the file and the
\* write stops early (disk full, file size limit with SIGXFSZ ignored); the
\* same with the process ended by SIGXFSZ inside the write
WriteOutcomes == {"ok", "open_failed", "partial", "killed"}

\* the lengths at which a write of r can stop early
PartialLens(r) == 0..(Len(r) - 1)

\* the file after the write: w is its outcome, k where it stopped
FileAfterWrite(file, r, w, k) ==
    CASE w = "ok" -> r
      [] w = "open_failed" -> file
      [] w \in {"partial", "killed"} -> SubSeq(r, 1, k)

\* the opens and closes of the output stream
WriteEvents(w) ==
    CASE w = "ok" -> <<"wopen", "wclose">>
      [] w = "open_failed" -> <<"wopen_failed">>
      [] w = "partial" -> <<"wopen", "wclose">>
      [] w = "killed" -> <<"wopen">>


(***************************************************************************)
(* The state after the tool is started for the first time.                 *)
(***************************************************************************)
Init ==
    /\ hasArg \in BOOLEAN
    /\ rres \in ReadOutcomes
    /\ disk \in Images
    /\ disk0 = disk
    /\ prev0 = disk
    /\ prevWritten = FALSE
    /\ run = 1
    /\ pc = "start"
    /\ raw = <<>>
    /\ crc_data = [i \in 1..CrcWords |-> Zero32]
    /\ crc = Zero32
    /\ out = <<>>
    /\ err = NoError
    /\ exitCode = 0
    /\ log = <<>>
    /\ wres = "none"
    /\ accessEnd = 0
    /\ call = <<>>
    /\ ret = <<>>

env == <<hasArg, rres, run, disk0, prev0, prevWritten, call, ret>>

\* std::cout << "Error: ..." << std::endl; return -1;
Fail(e) ==
    /\ err' = e
    /\ out' = Append(out, e)
    /\ exitCode' = ExitStatus(-1)
    /\ pc' = "exit"

\* the check passed: main() goes on with the next statement
Pass(next) ==
    /\ pc' = next
    /\ UNCHANGED <<err, out, exitCode>>

(***************************************************************************)
(* main(), statement by statement.                                         *)
(***************************************************************************)
\* the banner, and the check of argc
Start ==
    /\ pc = "start"
    /\ IF ~hasArg
       THEN /\ err' = MissingArgument
            /\ out' = <<Banner, MissingArgument>>
            /\ exitCode' = ExitStatus(-1)
            /\ pc' = "exit"
       ELSE /\ out' = <<Banner>>
            /\ pc' = "load"
            /\ UNCHANGED <<err, exitCode>>
    /\ UNCHANGED <<disk, raw, crc_data, crc, log, wres, accessEnd>>
    /\ UNCHANGED env

\* auto raw = get_raw_file(argv[1]); when the read throws, std::terminate
\* ends the process with SIGABRT (6) and nothing more is printed
Load ==
    /\ pc = "load"
    /\ log' = log \o get_raw_file_events(rres)
    /\ IF get_raw_file_throws(rres)
       THEN /\ pc' = "exit"
            /\ exitCode' = KilledBy(6)
            /\ UNCHANGED raw
       ELSE /\ raw' = get_raw_file(disk, rres)
            /\ pc' = "check_data"
            /\ UNCHANGED exitCode
    /\ UNCHANGED <<disk, crc_data, crc, out, err, wres, accessEnd>>
    /\ UNCHANGED env

\* if (!raw.size())
CheckData ==
    /\ pc = "check_data"
    /\ IF Len(raw) = 0 THEN Fail(EmptyOrUnreadableFile) ELSE Pass("check_signature")
    /\ UNCHANGED <<disk, raw, crc_data, crc, log, wres, accessEnd>>
    /\ UNCHANGED env

\* if (!std::equal(elf_signature.begin(), elf_signature.end(), raw.begin()))
CheckSignature ==
    /\ pc = "check_signature"
    /\ \E g \in Garbage :
        /\ accessEnd' = Max(accessEnd, SignatureRead(raw, g))
        /\ IF ~SignatureEqual(raw, g) THEN Fail(InvalidSignature) ELSE Pass("check_header")
    /\ UNCHANGED <<disk, raw, crc_data, crc, log, wres>>
    /\ UNCHANGED env

\* if (raw.size() < sizeof(elf::header))
CheckHeaderSize ==
    /\ pc = "check_header"
    /\ IF Len(raw) < SizeofHeader THEN Fail(TooSmallForHeader) ELSE Pass("check_shnum")
    /\ UNCHANGED <<disk, raw, crc_data, crc, log, wres, accessEnd>>
    /\ UNCHANGED env

\* if (header.e_shnum < 2)
CheckSectionCount ==
    /\ pc = "check_shnum"
    /\ accessEnd' = Max(accessEnd, OffEShnum + 2)
    /\ IF e_shnum(raw) < 2 THEN Fail(TooFewSections) ELSE Pass("check_sections")
    /\ UNCHANGED <<disk, raw, crc_data, crc, log, wres>>
    /\ UNCHANGED env

\* if (raw.size() < (header.e_shoff + (header.e_shnum * sizeof(elf::sector_header))))
CheckSectionTable ==
    /\ pc = "check_sections"
    /\ accessEnd' = Max(accessEnd, Max(OffEShoff + 4, OffEShnum + 2))
    /\ IF SectionsTooSmall(SizeOf(Len(raw)), e_shoff(raw), e_shnum(raw))
       THEN Fail(TooSmallForSectionTable)
       ELSE Pass("check_type")
    /\ UNCHANGED <<disk, raw, crc_data, crc, log, wres>>
    /\ UNCHANGED env

\* if (static_cast<elf::type>(vectors.sh_type) != elf::type::progbits)
CheckSectionType ==
    /\ pc = "check_type"
    /\ accessEnd' = Max(accessEnd, VectorsAt(raw) + OffShType + 4)
    /\ IF NotProgbits(sh_type(raw)) THEN Fail(WrongSectionType) ELSE Pass("check_vectors")
    /\ UNCHANGED <<disk, raw, crc_data, crc, log, wres>>
    /\ UNCHANGED env

\* if (raw.size() < vectors.sh_offset + (8 * sizeof(uint32_t)))
CheckVectorTable ==
    /\ pc = "check_vectors"
    /\ accessEnd' = Max(accessEnd, VectorsAt(raw) + OffShOffset + 4)
    /\ IF VectorsTooSmall(SizeOf(Len(raw)), sh_offset(raw))
       THEN Fail(TooSmallForVectorTable)
       ELSE Pass("read_words")
    /\ UNCHANGED <<disk, raw, crc_data, crc, log, wres>>
    /\ UNCHANGED env

\* for (uint32_t i = 0; i < crc_data.size(); i++) crc_data[i] = ...
ReadCrcData ==
    /\ pc = "read_words"
    /\ crc_data' = ReadWords(raw, ToIndex(sh_offset(raw)))
    /\ accessEnd' = Max(accessEnd, ToIndex(sh_offset(raw)) + CrcWords * SizeofWord)
    /\ pc' = "calculate"
    /\ UNCHANGED <<disk, raw, crc, out, err, exitCode, log, wres>>
    /\ UNCHANGED env

\* uint32_t crc = calculate_crc(crc_data), and the line that reports it
ComputeCrc ==
    /\ pc = "calculate"
    /\ crc' = calculate_crc(crc_data)
    /\ out' = Append(out, SignatureLine)
    /\ pc' = "patch"
    /\ UNCHANGED <<disk, raw, crc_data, err, exitCode, log, wres, accessEnd>>
    /\ UNCHANGED env

\* location[0..3] = the bytes of crc
PatchCrc ==
    /\ pc = "patch"
    /\ raw' = StoreBytes(raw, PatchAt(ToIndex(sh_offset(raw))), CrcBytes(crc))
    /\ accessEnd' = Max(accessEnd, PatchAt(ToIndex(sh_offset(raw))) + SizeofWord)
    /\ pc' = "write"
    /\ UNCHANGED <<disk, crc_data, crc, out, err, exitCode, log, wres>>
    /\ UNCHANGED env

\* std::ofstream output(argv[1], std::ios::binary); std::copy(...); output.close();
\* no result of the stream is looked at
\* a process ended by SIGXFSZ (25) prints nothing more
WriteFile ==
    /\ pc = "write"
    /\ \E w \in WriteOutcomes, k \in PartialLens(raw) :
        /\ wres' = w
        /\ disk' = FileAfterWrite(disk, raw, w, k)
        /\ log' = log \o WriteEvents(w)
        /\ IF w = "killed"
           THEN pc' = "exit" /\ exitCode' = KilledBy(25)
           ELSE pc' = "finish" /\ UNCHANGED exitCode
    /\ UNCHANGED <<raw, crc_data, crc, out, err, accessEnd>>
    /\ UNCHANGED env

\* std::cout << "Processing completed, success"; main() returns
Finish ==
    /\ pc = "finish"
    /\ out' = Append(out, Completed)
    /\ exitCode' = ExitStatus(0)
    /\ pc' = "exit"
    /\ UNCHANGED <<disk, raw, crc_data, crc, err, log, wres, accessEnd>>
    /\ UNCHANGED env

\* the tool is started again on the same path
Rerun ==
    /\ pc = "exit"
    /\ run < MaxRuns
    /\ run' = run + 1
    /\ prev0' = disk0
    /\ disk0' = disk
    /\ prevWritten' = (err = NoError /\ wres = "ok")
    /\ pc' = "start"
    /\ raw' = <<>>
    /\ crc_data' = [i \in 1..CrcWords |-> Zero32]
    /\ crc' = Zero32
    /\ out' = <<>>
    /\ err' = NoError
    /\ exitCode' = 0
    /\ log' = <<>>
    /\ wres' = "none"
    /\ accessEnd' = 0
    /\ UNCHANGED <<hasArg, rres, disk, call, ret>>

Next ==
    \/ Start
    \/ Load
    \/ CheckData
    \/ CheckSignature
    \/ CheckHeaderSize
    \/ CheckSectionCount
    \/ CheckSectionTable
    \/ CheckSectionType
    \/ CheckVectorTable
    \/ ReadCrcData
    \/ ComputeCrc
    \/ PatchCrc
    \/ WriteFile
    \/ Finish
    \/ Rerun

Spec == Init /\ [][Next]_vars


(***************************************************************************)
(* calculate_crc called on its own, on words chosen from CrcValues.        *)
(***************************************************************************)
CrcValues == {U32(0, 0), U32(0, 1), U32(32768, 0), U32(65535, 65535)}
OneToSeven == <<U32(0, 1), U32(0, 2), U32(0, 3), U32(0, 4), U32(0, 5), U32(0, 6), U32(0, 7)>>
CrcInputs == [1..CrcWords -> CrcValues] \cup {OneToSeven}

\* the variables of main() while a function is called on its own
NoProcess ==
    /\ hasArg = FALSE
    /\ rres = "open_failed"
    /\ disk = <<>>
    /\ disk0 = <<>>
    /\ prev0 = <<>>
    /\ prevWritten = FALSE
    /\ run = 1
    /\ raw = <<>>
    /\ crc_data = [i \in 1..CrcWords |-> Zero32]
    /\ crc = Zero32
    /\ out = <<>>
    /\ err = NoError
    /\ exitCode = 0
    /\ log = <<>>
    /\ wres = "none"
    /\ accessEnd = 0

InitCrc ==
    /\ NoProcess
    /\ pc = "call"
    /\ call \in CrcInputs
    /\ ret = Zero32

CallCrc ==
    /\ pc = "call"
    /\ ret' = calculate_crc(call)
    /\ pc' = "return"
    /\ UNCHANGED <<hasArg, rres, disk, raw, crc_data, crc, out, err, exitCode,
                   log, wres, accessEnd, run, disk0, prev0, prevWritten, call>>

SpecCrc == InitCrc /\ [][CallCrc]_vars

(***************************************************************************)
(* The section-table check on its own, on sizes around the boundary        *)
(* e_shoff + e_shnum * 40: size is that sum plus delta.                    *)
(***************************************************************************)
FitSlack == 2
FitShoffs == {U32(0, 0), U32(0, 52), U32(0, 65535), U32(1, 0), U32(32767, 65535),
              U32(32768, 0), U32(65535, 65536 - 80), U32(65535, 65535)}
FitShnums == {2, 3, 1638, 1639, 65535}

\* the size_t with the value shoff + shnum * 40 + delta
SizeAround(shoff, shnum, delta) ==
    LET l == shoff.lo + shnum * 40 + delta
    IN  U32(shoff.hi + (l \div 65536), l % 65536)

InitFit ==
    /\ NoProcess
    /\ pc = "call"
    /\ \E o \in FitShoffs, n \in FitShnums, d \in (0 - FitSlack)..FitSlack :
         call = [size |-> SizeAround(o, n, d), shoff |-> o, shnum |-> n, delta |-> d]
    /\ ret = FALSE

CallFit ==
    /\ pc = "call"
    /\ ret' = ~SectionsTooSmall(call.size, call.shoff, call.shnum)
    /\ pc' = "return"
    /\ UNCHANGED <<hasArg, rres, disk, raw, crc_data, crc, out, err, exitCode,
                   log, wres, accessEnd, run, disk0, prev0, prevWritten, call>>

SpecFit == InitFit /\ [][CallFit]_vars

(***************************************************************************)
(* What the design asks of an image, stated on the file itself.            *)
(***************************************************************************)
\* the error of the first validation check, in the order of the design, that
\* the file f fails; NoError when it passes all six
FirstFailedCheck(f) ==
    IF Len(f) < 4 \/ SubSeq(f, 1, 4) # <<127, 69, 76, 70>> THEN InvalidSignature
    ELSE IF Len(f) < 52 THEN TooSmallForHeader
    ELSE IF LoadLE16(f, 48) < 2 THEN TooFewSections
    ELSE IF LoadLE32(f, 32).hi # 0
            \/ LoadLE32(f, 32).lo + LoadLE16(f, 48) * 40 > Len(f)
         THEN TooSmallForSectionTable
    ELSE IF LoadLE32(f, LoadLE32(f, 32).lo + 40 + 4) # U32(0, 1) THEN WrongSectionType
    ELSE IF LoadLE32(f, LoadLE32(f, 32).lo + 40 + 16).hi # 0
            \/ LoadLE32(f, LoadLE32(f, 32).lo + 40 + 16).lo + 32 > Len(f)
         THEN TooSmallForVectorTable
    ELSE NoError

Accepted(f) == FirstFailedCheck(f) = NoError

\* file offset of section 1 of an accepted file
VectorTableOf(f) == LoadLE32(f, LoadLE32(f, 32).lo + 40 + 16).lo

\* the tool reads the same signature, header and section fields in a and b
FieldsKept(a, b) ==
    /\ Len(a) = Len(b)
    /\ SubSeq(a, 1, 4) = SubSeq(b, 1, 4)
    /\ LoadLE16(a, 48) = LoadLE16(b, 48)
    /\ LoadLE32(a, 32) = LoadLE32(b, 32)
    /\ LoadLE32(a, LoadLE32(a, 32).lo + 40 + 4) = LoadLE32(b, LoadLE32(a, 32).lo + 40 + 4)
    /\ LoadLE32(a, LoadLE32(a, 32).lo + 40 + 16) = LoadLE32(b, LoadLE32(a, 32).lo + 40 + 16)

\* the positions of the log at which the file is opened for writing (the
\* attempts that fail included)
WriteOpens == {k \in 1..Len(log) : log[k] \in {"wopen", "wopen_failed"}}

HasWriteOpen == WriteOpens # {}

\* the run ended before the patcher: with an error line, or by the abort of
\* a failed read
EndedBeforePatcher == pc = "exit" /\ (err # NoError \/ exitCode = 128 + 6)

\* the run reached its end with the buffer written back completely
WrittenBack == pc = "exit" /\ err = NoError /\ wres = "ok"

\* the buffer holds the patched image
Patched == pc \in {"write", "finish"} \/ (pc = "exit" /\ wres # "none")

(***************************************************************************)
(* The claims.                                                             *)
(***************************************************************************)
\* C1: for every 7 words calculate_crc returns c with (w0 + ... + w6 + c)
\* mod 2^32 = 0, without error on wrap-around; the words 1..7 give 0xFFFFFFE4.
C1_ChecksumSumsToZero ==
    pc = "return" =>
        /\ AddU32(call[1], AddU32(call[2], AddU32(call[3], AddU32(call[4],
             AddU32(call[5], AddU32(call[6], AddU32(call[7], ret))))))) = Zero32
        /\ (call = OneToSeven => ret = U32(65535, 65508))

C1_Witness ==
    /\ pc = "return"
    /\ call = [i \in 1..CrcWords |-> U32(65535, 65535)]
    /\ ret = U32(0, 7)

\* C2: when the buffer has been written back, the file has the length it
\* had and differs from the original at most in the 4 bytes from offset
\* sh_offset + 28 of section 1 on, also when the vector table overlaps the
\* ELF header or the section header table.
C2_OnlyPatchedWordDiffers ==
    WrittenBack =>
        /\ Len(disk) = Len(disk0)
        /\ \A i \in 0..(Len(disk0) - 1) :
             (i < VectorTableOf(disk0) + 28 \/ i >= VectorTableOf(disk0) + 32)
                => ByteAt(disk, i) = ByteAt(disk0, i)

C2_Witness ==
    /\ WrittenBack
    /\ disk # disk0
    /\ VectorTableOf(disk0) + 28 < 52

\* C3: a run that ends in an error before the patcher never opens the file
\* for writing and leaves it as it was; the file is opened for writing once,
\* after the read-open was closed and only for an image that passes all six
\* validation checks.
C3_NoWriteBeforeValidation ==
    /\ EndedBeforePatcher => (~HasWriteOpen /\ disk = disk0)
    /\ HasWriteOpen =>
         /\ Accepted(disk0)
         /\ WriteOpens = {3}
         /\ SubSeq(log, 1, 2) = <<"ropen", "rclose">>

C3_Witness ==
    /\ pc = "exit"
    /\ err = TooSmallForVectorTable
    /\ log = <<"ropen", "rclose">>
    /\ disk = disk0

\* C4: a run exits with code 0 and the completion line exactly when the
\* patched buffer was written back to the file; every failure, a failed write
\* included, ends with an "Error:" line and a non-zero exit code.  Stated for
\* the runs that end by a return from main(), not by a signal.
C4_ExitCodeReportsSuccess ==
    (pc = "exit" /\ exitCode \in {ExitStatus(0), ExitStatus(-1)}) =>
        IF wres = "ok"
        THEN exitCode = 0 /\ err = NoError /\ out[Len(out)] = Completed
        ELSE exitCode # 0 /\ err # NoError /\ out[Len(out)] = err

\* C5: for a non-empty input the error reported is the first check, in the
\* order signature, header size, section count, section table, section type,
\* vector table, that the image fails, and it is the only one; a non-empty
\* file shorter than 4 bytes is reported as InvalidSignature.
C5_FirstFailedCheckReported ==
    (pc = "exit" /\ hasArg /\ rres = "ok" /\ disk0 # <<>>) =>
        /\ err = FirstFailedCheck(disk0)
        /\ Cardinality({k \in 1..Len(out) : out[k] \notin {Banner, SignatureLine, Completed}})
              <= 1

\* C6: the section-table check passes exactly when the length is at least
\* e_shoff + e_shnum * 40, the sum taken without 32-bit wrap-around: the
\* exact size passes and one byte less fails.
C6_SectionTableBoundary ==
    pc = "return" => (ret <=> call.delta >= 0)

C6_Witness ==
    /\ pc = "return"
    /\ call.shoff = U32(65535, 65535)
    /\ call.delta = 0 - 1
    /\ ret = FALSE

\* C7: after the patch the 7 words at section 1's file offset decode to the
\* values they had, the checksum recomputed over them is the little-endian
\* decoding of the 4 bytes at offset + 28, and the 8 words sum to 0 mod 2^32.
C7_PatchThenCheck ==
    Patched =>
        LET off == VectorTableOf(disk0)
            w(k) == LoadLE32(raw, off + 4 * k)
        IN  /\ \A k \in 0..6 : w(k) = LoadLE32(disk0, off + 4 * k)
            /\ calculate_crc(ReadWords(raw, off)) = w(7)
            /\ AddU32(w(0), AddU32(w(1), AddU32(w(2), AddU32(w(3), AddU32(w(4),
                 AddU32(w(5), AddU32(w(6), w(7)))))))) = Zero32

C7_Witness ==
    /\ pc = "exit"
    /\ wres = "ok"
    /\ raw # disk0
    /\ LoadLE32(raw, VectorTableOf(disk0) + 28) = U32(65535, 65508)

\* C8: the header of the vector-table section is the entry at file offset
\* e_shoff + 1 * e_shentsize; its sh_type decides WrongSectionType, for
\* every value of e_shentsize.
C8_EntryAtShentsizeStride ==
    (/\ pc = "exit"
     /\ hasArg /\ rres = "ok" /\ disk0 # <<>>
     /\ err \notin {InvalidSignature, TooSmallForHeader, TooFewSections,
                    TooSmallForSectionTable}
     /\ LoadLE32(disk0, 32).lo >= 52
     /\ LoadLE32(disk0, 32).lo + LoadLE16(disk0, 46) + 40 <= Len(disk0))
    => (err = WrongSectionType
          <=> LoadLE32(disk0, LoadLE32(disk0, 32).lo + LoadLE16(disk0, 46) + 4) # U32(0, 1))

\* C9: every byte of the buffer the program reads or writes has an index
\* below the buffer length, for every input of length >= 1.
C9_AccessInBounds ==
    accessEnd <= Len(raw)

\* C10: a second run on the output of a successful run succeeds and leaves
\* the file as it is, for every accepted image.
C10_SecondRunIsFixedPoint ==
    (run >= 2 /\ prevWritten /\ pc = "exit") =>
        /\ err = NoError
        /\ (wres = "ok" => disk = disk0)

\* C10, amended: a second run on the output of a successful run succeeds and
\* leaves the file as it is, for every accepted image in which the patch left
\* the signature, e_shoff, e_shnum and section 1's sh_type and sh_offset at
\* their values.
C10_FixedPointWhenFieldsKept ==
    (run >= 2 /\ prevWritten /\ FieldsKept(prev0, disk0) /\ pc = "exit") =>
        /\ err = NoError
        /\ (wres = "ok" => disk = disk0)

C10_Witness ==
    /\ run >= 2
    /\ prevWritten
    /\ FieldsKept(prev0, disk0)
    /\ prev0 # disk0
    /\ pc = "exit"
    /\ wres = "ok"
    /\ disk = disk0

====
